---- MODULE Spec2Model ----
(***************************************************************************)
(* CT segmentation pipeline (src/app.py): the SegmentationUI window, its   *)
(* two QThread workers (DicomToNiftiWorker, SegmentationWorker) and the    *)
(* queued signal connections between them.                                 *)
(*                                                                         *)
(* Text is a sequence of string pieces; concatenation is \o.  The task     *)
(* catalog and the process output are spelled character by character so    *)
(* that startswith, endswith and rstrip are computed, not assumed.         *)
(***************************************************************************)
EXTENDS Integers, Sequences, FiniteSets, TLC

(* ---------------------------- bounds ---------------------------------- *)

\* output lines one external process writes before it closes its stdout
MaxLines == 2
\* series identifiers one directory scan returns
MaxSeries == 4
\* files in one series
MaxFiles == 3

\* directories the folder dialogs can return
DicomDirs == {"/data"}
OutputDirs == {"/out"}
\* combo-box entries the user picks among (indexes into the item lists):
\* a group header, a CT task, an MR task
TaskChoices == {1, 2, 27}
ModelChoices == {1}
DeviceChoices == {1}

(* ---------------------------- text ------------------------------------ *)

\* Python None for a directory attribute, for a Path, for a modal dialog
None == "None"
NonePath == << >>
\* QFileDialog.getExistingDirectory returns "" when the dialog is cancelled
Cancelled == ""

\* Python truthiness of a str-or-None attribute
Truthy(x) == x # None /\ x # Cancelled

\* str.startswith
StartsWith(s, p) == Len(s) >= Len(p) /\ SubSeq(s, 1, Len(p)) = p

\* a suffix test that never matches
EndsWithNothing(s, p) == FALSE

\* str.endswith
EndsWith(s, p) == Len(s) >= Len(p) /\ SubSeq(s, Len(s) - Len(p) + 1, Len(s)) = p

Whitespace == {" ", "\n", "\t", "\r"}

\* str.rstrip()
RECURSIVE rstrip(_)
rstrip(s) ==
  IF s # << >> /\ s[Len(s)] \in Whitespace
  THEN rstrip(SubSeq(s, 1, Len(s) - 1))
  ELSE s

Digits == <<"0", "1", "2", "3", "4", "5", "6", "7", "8", "9">>

\* the i-th line an external process writes (text mode keeps the newline)
ProcLine(i) == <<"s", "t", "e", "p", " ", Digits[(i % 10) + 1], " ", "\n">>

\* Path(dir) / name
PathJoin(dir, name) == <<dir, "/">> \o name

(* ---------------------------- task catalog ---------------------------- *)

TOTAL_SEGMENTATOR_TASKS ==
  <<
     [group |-> <<"C","T"," ","(","d","e","f","a","u","l","t",")">>,
      tasks |-> <<
        <<"t","o","t","a","l">>,
        <<"l","u","n","g","_","v","e","s","s","e","l","s">>,
        <<"b","o","d","y">>,
        <<"c","e","r","e","b","r","a","l","_","b","l","e","e","d">>,
        <<"h","i","p","_","i","m","p","l","a","n","t">>,
        <<"p","l","e","u","r","a","l","_","p","e","r","i","c","a","r","d","_","e","f","f","u","s","i","o","n">>,
        <<"h","e","a","d","_","g","l","a","n","d","s","_","c","a","v","i","t","i","e","s">>,
        <<"h","e","a","d","_","m","u","s","c","l","e","s">>,
        <<"h","e","a","d","n","e","c","k","_","b","o","n","e","s","_","v","e","s","s","e","l","s">>,
        <<"h","e","a","d","n","e","c","k","_","m","u","s","c","l","e","s">>,
        <<"l","i","v","e","r","_","v","e","s","s","e","l","s">>,
        <<"o","c","u","l","o","m","o","t","o","r","_","m","u","s","c","l","e","s">>,
        <<"l","u","n","g","_","n","o","d","u","l","e","s">>,
        <<"k","i","d","n","e","y","_","c","y","s","t","s">>,
        <<"b","r","e","a","s","t","s">>,
        <<"l","i","v","e","r","_","s","e","g","m","e","n","t","s">>,
        <<"c","r","a","n","i","o","f","a","c","i","a","l","_","s","t","r","u","c","t","u","r","e","s">>,
        <<"a","b","d","o","m","i","n","a","l","_","m","u","s","c","l","e","s">>,
        <<"t","e","e","t","h">>,
        <<"t","r","u","n","k","_","c","a","v","i","t","i","e","s">>,
        <<"v","e","r","t","e","b","r","a","e","_","b","o","d","y">>,
        <<"b","r","a","i","n","_","s","t","r","u","c","t","u","r","e","s">>,
        <<"c","o","r","o","n","a","r","y","_","a","r","t","e","r","i","e","s">>,
        <<"f","a","c","e">> >>],
     [group |-> <<"M","R"," ","(","_","m","r",")">>,
      tasks |-> <<
        <<"t","o","t","a","l","_","m","r">>,
        <<"b","o","d","y","_","m","r">>,
        <<"v","e","r","t","e","b","r","a","e","_","m","r">>,
        <<"l","i","v","e","r","_","s","e","g","m","e","n","t","s","_","m","r">>,
        <<"a","p","p","e","n","d","i","c","u","l","a","r","_","b","o","n","e","s","_","m","r">>,
        <<"t","i","s","s","u","e","_","t","y","p","e","s","_","m","r">>,
        <<"f","a","c","e","_","m","r">>,
        <<"t","h","i","g","h","_","s","h","o","u","l","d","e","r","_","m","u","s","c","l","e","s","_","m","r">> >>],
     [group |-> <<"S","p","e","c","i","a","l"," ","/"," ","L","i","c","e","n","s","e","d">>,
      tasks |-> <<
        <<"h","e","a","r","t","c","h","a","m","b","e","r","s","_","h","i","g","h","r","e","s">>,
        <<"a","p","p","e","n","d","i","c","u","l","a","r","_","b","o","n","e","s">>,
        <<"t","i","s","s","u","e","_","t","y","p","e","s">>,
        <<"t","i","s","s","u","e","_","4","_","t","y","p","e","s">>,
        <<"b","r","a","i","n","_","a","n","e","u","r","y","s","m">> >>] >>

\* f"--- {group} ---"
GroupHeader(group) == <<"-", "-", "-", " ">> \o group \o <<" ", "-", "-", "-">>

\* the items of ts_task_box in insertion order: a header, then the group's tasks
RECURSIVE TaskItemsFrom(_)
TaskItemsFrom(g) ==
  IF g > Len(TOTAL_SEGMENTATOR_TASKS) THEN << >>
  ELSE <<GroupHeader(TOTAL_SEGMENTATOR_TASKS[g].group)>>
         \o TOTAL_SEGMENTATOR_TASKS[g].tasks
         \o TaskItemsFrom(g + 1)

TaskItems == TaskItemsFrom(1)

MethodItems == <<"Skellytour", "TotalSegmentator">>
ModelItems == <<"low", "medium", "high">>
DeviceItems == <<"gpu", "cpu">>

(* ---------------------------- state ----------------------------------- *)

VARIABLES
  dicom_dir,       \* SegmentationUI.dicom_dir
  output_dir,      \* SegmentationUI.output_dir
  nifti_path,      \* SegmentationUI.nifti_path
  btn_convert,     \* btn_convert.isEnabled()
  run_btn,         \* run_btn.isEnabled()
  method_box,      \* method_box.currentText()
  model_box,       \* model_box.currentText()
  device_box,      \* device_box.currentText()
  ts_task_box,     \* ts_task_box.currentText()
  combo_enabled,   \* isEnabled() of model_box, device_box, ts_task_box
  log_box,         \* the lines the latest step appended to log_box (the text
                   \* already displayed is never read back)
  modal,           \* the QMessageBox the latest step showed, or None
  worker,          \* SegmentationUI.worker: the class of the object it refers
                   \* to, None before the first
  threads,         \* the running QThread object of each worker class
  eventQueue,      \* queued signal emissions posted to the UI thread
  nifti_file,      \* disk: whether each directory holds a ct.nii.gz
  aborted,         \* the process has been aborted by an unhandled exception
  series_ids,      \* run()'s series_ids: the file count of each series found,
                   \* in enumeration order (a series is named by its position)
  best_series      \* run()'s best_series, 0 before line 90

ui_vars == <<dicom_dir, output_dir, nifti_path, btn_convert, run_btn,
             method_box, model_box, device_box, ts_task_box, combo_enabled,
             worker>>
\* the locals of the series selection (lines 85-95), followed one scan at a
\* time by SpecSeries; the pipeline's steps keep of a scan only whether it
\* found a series
scan_vars == <<series_ids, best_series>>
vars == <<dicom_dir, output_dir, nifti_path, btn_convert, run_btn,
          method_box, model_box, device_box, ts_task_box, combo_enabled,
          log_box, modal, worker, threads, eventQueue,
          nifti_file, aborted, series_ids, best_series>>

\* no worker of a class is running.  A worker keeps its constructor arguments
\* and run()'s locals; sent and seen record, for the run, what it has emitted
\* and what the UI thread has handled of it.
Free ==
  [kind |-> "free", pc |-> "free",
   dicom_dir |-> None, output_dir |-> None, nifti_path |-> NonePath,
   method |-> None, model |-> None, device |-> None, ts_task |-> << >>,
   made_dir |-> << >>, cmd |-> << >>, stdout |-> << >>,
   err |-> << >>, sent |-> << >>, seen |-> << >>]

\* the worker classes
Kinds == {"convert", "segment"}

\* on_method_changed: which option boxes the method enables
on_method_changed(method) ==
  LET skel == (method = "Skellytour")
  IN  [model_box |-> skel, device_box |-> skel, ts_task_box |-> ~skel]

\* SegmentationUI.__init__: a QComboBox shows its first item once items are added
InitPipeline ==
  /\ dicom_dir = None
  /\ output_dir = None
  /\ nifti_path = NonePath
  /\ btn_convert = TRUE
  /\ run_btn = TRUE
  /\ method_box = MethodItems[1]
  /\ model_box = ModelItems[1]
  /\ device_box = DeviceItems[1]
  /\ ts_task_box = TaskItems[1]
  /\ combo_enabled = on_method_changed(MethodItems[1])
  /\ log_box = << >>
  /\ modal = None
  /\ worker = None
  /\ threads = [k \in Kinds |-> Free]
  /\ eventQueue = << >>
  /\ nifti_file = [d \in OutputDirs |-> "absent"]
  /\ aborted = FALSE

\* the window is shown and no scan has been made
Init ==
  /\ InitPipeline
  /\ series_ids = << >>
  /\ best_series = 0

(* ---------------------------- UI thread: user input ------------------- *)

\* a warning that is also written to the log
warning_logged(title) == modal' = title /\ log_box' = << <<title>> >>

\* QMessageBox.warning(self, title, ...): returns when the user closes the box
warning(title) == modal' = title /\ log_box' = << >>

\* SegmentationUI.log called by a handler: the lines it appends
appends(lines) == modal' = None /\ log_box' = lines

\* a step that shows no message box and appends nothing to the log
Quiet == modal' = None /\ log_box' = << >>

\* SegmentationUI.select_dicom: the folder dialog returns a path, or "" on cancel
select_dicom ==
  /\ ~aborted
  /\ \E path \in DicomDirs \cup {Cancelled} :
       IF Truthy(path)
       THEN /\ dicom_dir' = path
            /\ appends(<< <<"DICOM: ", path>> >>)
       ELSE /\ UNCHANGED dicom_dir
            /\ Quiet
  /\ UNCHANGED <<output_dir, nifti_path, btn_convert, run_btn,
                 method_box, model_box, device_box, ts_task_box, combo_enabled,
                 worker, threads, eventQueue, nifti_file, aborted>>
  /\ UNCHANGED scan_vars

\* SegmentationUI.select_output
select_output ==
  /\ ~aborted
  /\ \E path \in OutputDirs \cup {Cancelled} :
       IF Truthy(path)
       THEN /\ output_dir' = path
            /\ appends(<< <<"Output: ", path>> >>)
       ELSE /\ UNCHANGED output_dir
            /\ Quiet
  /\ UNCHANGED <<dicom_dir, nifti_path, btn_convert, run_btn,
                 method_box, model_box, device_box, ts_task_box, combo_enabled,
                 worker, threads, eventQueue, nifti_file, aborted>>
  /\ UNCHANGED scan_vars

\* the user picks another method; currentTextChanged runs on_method_changed
select_method ==
  /\ ~aborted
  /\ \E i \in DOMAIN MethodItems :
       /\ MethodItems[i] # method_box
       /\ method_box' = MethodItems[i]
       /\ combo_enabled' = on_method_changed(MethodItems[i])
  /\ Quiet
  /\ UNCHANGED <<dicom_dir, output_dir, nifti_path, btn_convert, run_btn,
                 model_box, device_box, ts_task_box,
                 worker, threads, eventQueue, nifti_file, aborted>>
  /\ UNCHANGED scan_vars

\* the user picks an entry of an enabled option box (no slot is connected)
select_option ==
  /\ ~aborted
  /\ \/ /\ combo_enabled.model_box
        /\ \E i \in ModelChoices : model_box' = ModelItems[i]
        /\ UNCHANGED <<device_box, ts_task_box>>
     \/ /\ combo_enabled.device_box
        /\ \E i \in DeviceChoices : device_box' = DeviceItems[i]
        /\ UNCHANGED <<model_box, ts_task_box>>
     \/ /\ combo_enabled.ts_task_box
        /\ \E i \in TaskChoices : ts_task_box' = TaskItems[i]
        /\ UNCHANGED <<model_box, device_box>>
  /\ Quiet
  /\ UNCHANGED <<dicom_dir, output_dir, nifti_path, btn_convert, run_btn,
                 method_box, combo_enabled,
                 worker, threads, eventQueue, nifti_file, aborted>>
  /\ UNCHANGED scan_vars
(* ---------------------------- worker objects -------------------------- *)

\* DicomToNiftiWorker.__init__, then start(): the thread is about to enter run()
DicomToNiftiWorker(dicom, output) ==
  [Free EXCEPT !.kind = "convert", !.pc = "begin",
               !.dicom_dir = dicom, !.output_dir = output]

\* a worker that looks for the volume in the output folder it is given
SegmentationWorkerBesideOutput(nifti, output, method, model, device, task) ==
  [Free EXCEPT !.kind = "segment", !.pc = "begin",
               !.nifti_path = PathJoin(output, <<"ct.nii.gz">>),
               !.output_dir = output, !.method = method,
               !.model = model, !.device = device, !.ts_task = task]

\* SegmentationWorker.__init__, then start()
SegmentationWorker(nifti, output, method, model, device, task) ==
  [Free EXCEPT !.kind = "segment", !.pc = "begin",
               !.nifti_path = nifti, !.output_dir = output, !.method = method,
               !.model = model, !.device = device, !.ts_task = task]

\* self.worker = <new object>; connect log and finished; start().  The
\* button that starts a class stays disabled until the completion of its
\* running worker has been handled, so no worker of the class is running
StartWorker(obj) ==
  /\ threads' = [threads EXCEPT ![obj.kind] = obj]
  /\ worker' = obj.kind

(* ---------------------------- UI thread: handlers --------------------- *)

\* the guard of line 278 with "and" in place of "or"
missing_input_both == ~Truthy(dicom_dir) /\ ~Truthy(output_dir)

\* line 278: not self.dicom_dir or not self.output_dir
missing_input == ~Truthy(dicom_dir) \/ ~Truthy(output_dir)

\* run_segmentation without the guard of line 300
missing_nifti_unchecked == FALSE

\* line 300: not self.nifti_path
missing_nifti == nifti_path = NonePath

\* run_segmentation without the guard of line 306
invalid_task_unchecked(task) == FALSE

\* line 306: task.startswith("---")
invalid_task(task) == StartsWith(task, <<"-", "-", "-">>)

\* SegmentationUI.convert_dicom (the arrow of line 283 is spelled ->)
convert_dicom ==
  /\ ~aborted
  /\ btn_convert
  /\ IF missing_input
     THEN /\ warning("Missing Input")
          /\ UNCHANGED <<btn_convert, threads, worker>>
     ELSE /\ appends(<< <<"Converting DICOM -> NIfTI...\n">> >>)
          /\ btn_convert' = FALSE
          /\ StartWorker(DicomToNiftiWorker(dicom_dir, output_dir))
  /\ UNCHANGED <<dicom_dir, output_dir, nifti_path, run_btn,
                 method_box, model_box, device_box, ts_task_box, combo_enabled,
                 eventQueue, nifti_file, aborted>>
  /\ UNCHANGED scan_vars

\* SegmentationUI.run_segmentation (the advisory of line 312 is spelled
\* without its leading sign)
run_segmentation ==
  /\ ~aborted
  /\ run_btn
  /\ LET task == ts_task_box
     IN  IF missing_nifti
         THEN /\ warning("Missing NIfTI")
              /\ UNCHANGED <<run_btn, threads, worker>>
         ELSE IF invalid_task(task)
         THEN /\ warning("Invalid Task")
              /\ UNCHANGED <<run_btn, threads, worker>>
         ELSE /\ appends(
                   (IF EndsWith(task, <<"_", "m", "r">>)
                    THEN << <<"WARNING: MR task selected. Ensure MR input.\n">> >>
                    ELSE << >>)
                   \o << <<"Starting segmentation...\n">> >>)
              /\ run_btn' = FALSE
              /\ StartWorker(SegmentationWorker(nifti_path, output_dir, method_box,
                                                model_box, device_box, task))
  /\ UNCHANGED <<dicom_dir, output_dir, nifti_path, btn_convert,
                 method_box, model_box, device_box, ts_task_box, combo_enabled,
                 eventQueue, nifti_file, aborted>>
  /\ UNCHANGED scan_vars

\* SegmentationUI.log, as the slot of a worker's log signal
log(text) ==
  /\ appends(<<text>>)
  /\ UNCHANGED <<nifti_path, btn_convert, run_btn>>

\* on_nifti_done keeping the path of the first conversion
on_nifti_done_once(nifti) ==
  /\ btn_convert' = TRUE
  /\ IF nifti # NonePath
     THEN /\ nifti_path' = IF nifti_path = NonePath THEN nifti ELSE nifti_path
          /\ appends(<< <<"\nNIfTI conversion done.\n">> >>)
     ELSE /\ appends(<< <<"\nNIfTI conversion failed.\n">> >>)
          /\ UNCHANGED nifti_path
  /\ UNCHANGED run_btn

\* SegmentationUI.on_nifti_done
on_nifti_done(nifti) ==
  /\ btn_convert' = TRUE
  /\ IF nifti # NonePath
     THEN /\ nifti_path' = nifti
          /\ appends(<< <<"\nNIfTI conversion done.\n">> >>)
     ELSE /\ appends(<< <<"\nNIfTI conversion failed.\n">> >>)
          /\ UNCHANGED nifti_path
  /\ UNCHANGED run_btn

\* on_finished forgetting the volume along with the run
on_finished_reset ==
  /\ run_btn' = TRUE
  /\ nifti_path' = NonePath
  /\ appends(<< <<"\nDone.\n">> >>)
  /\ UNCHANGED btn_convert

\* SegmentationUI.on_finished
on_finished ==
  /\ run_btn' = TRUE
  /\ appends(<< <<"\nDone.\n">> >>)
  /\ UNCHANGED <<nifti_path, btn_convert>>

\* the UI event loop takes the oldest queued emission and calls the slot
\* connected to it (lines 287-288, 326-327)
deliver ==
  /\ ~aborted
  /\ eventQueue # << >>
  /\ LET ev == Head(eventQueue)
         t == threads[ev.src]
     IN  /\ eventQueue' = Tail(eventQueue)
         /\ threads' = [threads EXCEPT ![ev.src] =
              IF ev.sig = "finished" THEN Free
              ELSE [t EXCEPT !.seen = Append(@, <<ev.sig, ev.arg>>)]]
         /\ IF ev.sig = "log" THEN log(ev.arg)
            ELSE IF t.kind = "convert" THEN on_nifti_done(ev.arg)
            ELSE on_finished
  /\ UNCHANGED <<dicom_dir, output_dir, method_box, model_box, device_box,
                 ts_task_box, combo_enabled, worker,
                 nifti_file, aborted>>
  /\ UNCHANGED scan_vars

(* ---------------------------- worker threads -------------------------- *)

\* thread w is at step pc of the run() of a worker of this kind
At(w, kind, pc) ==
  /\ ~aborted
  /\ threads[w].kind = kind
  /\ threads[w].pc = pc

\* an emission that overtakes the emissions already queued
emit_overtaking(w, sig, arg, pc) ==
  /\ eventQueue' = <<[src |-> w, sig |-> sig, arg |-> arg]>> \o eventQueue
  /\ threads' = [threads EXCEPT ![w].sent = Append(@, <<sig, arg>>), ![w].pc = pc]

\* signal.emit(arg) in thread w, which goes on to step pc: a queued call is
\* posted to the UI thread
emit(w, sig, arg, pc) ==
  /\ eventQueue' = Append(eventQueue, [src |-> w, sig |-> sig, arg |-> arg])
  /\ threads' = [threads EXCEPT ![w].sent = Append(@, <<sig, arg>>), ![w].pc = pc]

\* thread w raises msg: the except clause of run() emits the error line
\* (lines 109-110, 139-140) and goes on to its own finished.emit
except(w, msg, pc) == emit(w, "log", <<"ERROR: ", msg>>, pc)

\* what GetGDCMSeriesIDs can return: the number of series found
SeriesCounts == 0 .. MaxSeries

\* DicomToNiftiWorker.run, lines 79-82 (the dialog returned an existing
\* directory, on which mkdir(exist_ok=True) changes nothing)
conv_begin(w) ==
  /\ At(w, "convert", "begin")
  /\ eventQueue' = Append(eventQueue,
       [src |-> w, sig |-> "log", arg |-> <<"Reading DICOM folder...">>])
  /\ threads' = [threads EXCEPT
       ![w].nifti_path = PathJoin(threads[w].output_dir, <<"ct.nii.gz">>),
       ![w].sent = Append(@, <<"log", <<"Reading DICOM folder...">> >>),
       ![w].pc = "convert"]
  /\ Quiet
  /\ UNCHANGED <<ui_vars, nifti_file, aborted>>
  /\ UNCHANGED scan_vars

\* lines 84-105, and lines 109-110 when line 88 raises: scan the directory;
\* without a series nothing is read or written, otherwise the largest series
\* is read and written to nifti_path
conv_convert(w) ==
  /\ At(w, "convert", "convert")
  /\ \E found \in SeriesCounts :
       IF found = 0
       THEN /\ except(w, "No DICOM series found", "emit_none")
            /\ UNCHANGED nifti_file
       ELSE /\ emit(w, "log", <<"NIfTI created: ">> \o threads[w].nifti_path,
                    "emit_finished")
            /\ nifti_file' = [nifti_file EXCEPT ![threads[w].output_dir] = "valid"]
  /\ Quiet
  /\ UNCHANGED <<ui_vars, aborted>>
  /\ UNCHANGED scan_vars

\* line 107 with the worker storing its result in the window itself
conv_emit_finished_direct(w) ==
  /\ At(w, "convert", "emit_finished")
  /\ emit(w, "finished", threads[w].nifti_path, "returned")
  /\ nifti_path' = threads[w].nifti_path
  /\ Quiet
  /\ UNCHANGED <<dicom_dir, output_dir, btn_convert, run_btn,
                 method_box, model_box, device_box, ts_task_box, combo_enabled,
                 worker, nifti_file, aborted>>
  /\ UNCHANGED scan_vars

\* line 107
conv_emit_finished(w) ==
  /\ At(w, "convert", "emit_finished")
  /\ emit(w, "finished", threads[w].nifti_path, "returned")
  /\ Quiet
  /\ UNCHANGED <<ui_vars, nifti_file, aborted>>
  /\ UNCHANGED scan_vars

\* line 111 emitting the path of line 80 in place of None
conv_emit_none_path(w) ==
  /\ At(w, "convert", "emit_none")
  /\ emit(w, "finished", threads[w].nifti_path, "returned")
  /\ Quiet
  /\ UNCHANGED <<ui_vars, nifti_file, aborted>>
  /\ UNCHANGED scan_vars

\* line 111: finished is declared pyqtSignal(Path) (line 70) and is emitted
\* with None.  The binding checks an emitted argument against the declared
\* Python type: when it accepts None the slot receives it; when it does not,
\* emit raises TypeError inside the except clause, the exception leaves run()
\* and the unhandled exception aborts the process.
conv_emit_none(w) ==
  /\ At(w, "convert", "emit_none")
  /\ \/ /\ emit(w, "finished", NonePath, "returned")
        /\ UNCHANGED aborted
     \/ /\ threads' = [threads EXCEPT ![w].pc = "uncaught"]
        /\ aborted' = TRUE
        /\ UNCHANGED eventQueue
  /\ Quiet
  /\ UNCHANGED <<ui_vars, nifti_file>>
  /\ UNCHANGED scan_vars
\* the argument list of run_skellytour without its last item
SkellytourCommandKeeping(t) ==
  << <<"skellytour">>,
     <<"-i">>, t.nifti_path,
     <<"-o">>, <<t.output_dir>>,
     <<"-m">>, <<t.model>>,
     <<"-d">>, <<t.device>> >>

\* run_skellytour, lines 146-153: the argument list
SkellytourCommand(t) ==
  << <<"skellytour">>,
     <<"-i">>, t.nifti_path,
     <<"-o">>, <<t.output_dir>>,
     <<"-m">>, <<t.model>>,
     <<"-d">>, <<t.device>>,
     <<"--overwrite">> >>

\* run_totalsegmentator, line 160: output_dir / f"segmentations_{ts_task}"
TaskOutDir(t) == PathJoin(t.output_dir, <<"segmentations_">> \o t.ts_task)

\* run_totalsegmentator, lines 163-168: the argument list
TotalSegmentatorCommand(t) ==
  << <<"TotalSegmentator">>,
     <<"-i">>, t.nifti_path,
     <<"-o">>, TaskOutDir(t),
     <<"-ta">>, t.ts_task >>

\* SegmentationWorker.run, lines 134-137: the branch on the method
Command(t) ==
  IF t.method = "Skellytour" THEN SkellytourCommand(t) ELSE TotalSegmentatorCommand(t)

\* lines 134-137 with 144-155 or 158-170, up to Popen in _run (173-178): the
\* first log line, the task directory (its parent exists, so
\* mkdir(exist_ok=True) creates it or finds it), and the process is started
\* or Popen raises
seg_begin(w) ==
  /\ At(w, "segment", "begin")
  /\ LET t == threads[w]
         line == IF t.method = "Skellytour"
                 THEN <<"Running Skellytour...">>
                 ELSE <<"Running TotalSegmentator (task: ">> \o t.ts_task \o <<")">>
         made == IF t.method = "Skellytour" THEN << >> ELSE TaskOutDir(t)
     IN  /\ eventQueue' = Append(eventQueue, [src |-> w, sig |-> "log", arg |-> line])
         /\ \/ threads' = [threads EXCEPT
                   ![w].sent = Append(@, <<"log", line>>),
                   ![w].made_dir = made,
                   ![w].cmd = Command(t),
                   ![w].pc = "readline"]
            \/ threads' = [threads EXCEPT
                   ![w].sent = Append(@, <<"log", line>>),
                   ![w].made_dir = made,
                   ![w].err = <<"Popen failed">>,
                   ![w].pc = "except"]
  /\ Quiet
  /\ UNCHANGED <<ui_vars, nifti_file, aborted>>
  /\ UNCHANGED scan_vars

\* _run, lines 180-181: the process writes one more line and it is logged
seg_readline(w) ==
  /\ At(w, "segment", "readline")
  /\ Len(threads[w].stdout) < MaxLines
  /\ LET line == ProcLine(Len(threads[w].stdout) + 1)
     IN  /\ eventQueue' = Append(eventQueue,
              [src |-> w, sig |-> "log", arg |-> rstrip(line)])
         /\ threads' = [threads EXCEPT
              ![w].stdout = Append(@, line),
              ![w].sent = Append(@, <<"log", rstrip(line)>>)]
  /\ Quiet
  /\ UNCHANGED <<ui_vars, nifti_file, aborted>>
  /\ UNCHANGED scan_vars

\* _run, lines 183-185, then line 138, or lines 139-140 when line 185
\* raises: stdout is closed and the process exits with some code
seg_wait(w) ==
  /\ At(w, "segment", "readline")
  /\ \E returncode \in {0, 1} :
       IF returncode # 0
       THEN except(w, "Segmentation failed", "except_emit")
       ELSE emit(w, "finished", << >>, "returned")
  /\ Quiet
  /\ UNCHANGED <<ui_vars, nifti_file, aborted>>
  /\ UNCHANGED scan_vars

\* lines 139-140 when Popen raised
seg_except(w) ==
  /\ At(w, "segment", "except")
  /\ emit(w, "log", <<"ERROR: ">> \o threads[w].err, "except_emit")
  /\ Quiet
  /\ UNCHANGED <<ui_vars, nifti_file, aborted>>
  /\ UNCHANGED scan_vars

\* line 141
seg_except_emit(w) ==
  /\ At(w, "segment", "except_emit")
  /\ emit(w, "finished", << >>, "returned")
  /\ Quiet
  /\ UNCHANGED <<ui_vars, nifti_file, aborted>>
  /\ UNCHANGED scan_vars

(* ---------------------------- specification --------------------------- *)

Next ==
  \/ select_dicom
  \/ select_output
  \/ select_method
  \/ select_option
  \/ convert_dicom
  \/ run_segmentation
  \/ deliver
  \/ \E w \in DOMAIN threads : conv_begin(w)
  \/ \E w \in DOMAIN threads : conv_convert(w)
  \/ \E w \in DOMAIN threads : conv_emit_finished(w)
  \/ \E w \in DOMAIN threads : conv_emit_none(w)
  \/ \E w \in DOMAIN threads : seg_begin(w)
  \/ \E w \in DOMAIN threads : seg_readline(w)
  \/ \E w \in DOMAIN threads : seg_wait(w)
  \/ \E w \in DOMAIN threads : seg_except(w)
  \/ \E w \in DOMAIN threads : seg_except_emit(w)

Spec == Init /\ [][Next]_vars


(* ---------------------------- series selection ------------------------ *)

RECURSIVE SeqsOfLen(_, _)
SeqsOfLen(S, n) ==
  IF n = 0 THEN { << >> }
  ELSE { Append(s, x) : s \in SeqsOfLen(S, n - 1), x \in S }

\* what GetGDCMSeriesIDs with GetGDCMSeriesFileNames can return for a
\* directory that holds a series: the file count of each series found
SeriesEnumerations ==
  UNION { SeqsOfLen(1 .. MaxFiles, n) : n \in 1 .. MaxSeries }

\* max() keeping the last of several largest series
RECURSIVE MaxFromLast(_, _, _)
MaxFromLast(counts, i, best) ==
  IF i > Len(counts) THEN best
  ELSE MaxFromLast(counts, i + 1, IF counts[i] >= counts[best] THEN i ELSE best)

BestSeriesLast(counts) == MaxFromLast(counts, 2, 1)

\* max(iterable, key=...): the running maximum, replaced only by an item
\* whose key is strictly larger
RECURSIVE MaxFrom(_, _, _)
MaxFrom(counts, i, best) ==
  IF i > Len(counts) THEN best
  ELSE MaxFrom(counts, i + 1, IF counts[i] > counts[best] THEN i ELSE best)

\* lines 90-95: max(series_ids, key=number of files of the series)
BestSeries(counts) == MaxFrom(counts, 2, 1)

\* a conversion worker whose scan (line 85) found these series
InitSeries ==
  /\ InitPipeline
  /\ series_ids \in SeriesEnumerations
  /\ best_series = 0

\* lines 90-95 on the series found
select_series ==
  /\ series_ids # << >>
  /\ best_series' = BestSeries(series_ids)
  /\ UNCHANGED <<dicom_dir, output_dir, nifti_path, btn_convert, run_btn,
                 method_box, model_box, device_box, ts_task_box, combo_enabled,
                 log_box, modal, worker, threads, eventQueue,
                 nifti_file, aborted, series_ids>>

NextSeries == select_series

SpecSeries == InitSeries /\ [][NextSeries]_vars

(* ---------------------------- several output folders ------------------ *)

\* the directories the output folder dialog can return when the user comes
\* back to it
MoreOutputDirs == {"/out", "/mnt"}

\* the window with TotalSegmentator and its first task selected
InitDirs ==
  /\ dicom_dir = None
  /\ output_dir = None
  /\ nifti_path = NonePath
  /\ btn_convert = TRUE
  /\ run_btn = TRUE
  /\ method_box = MethodItems[2]
  /\ model_box = ModelItems[1]
  /\ device_box = DeviceItems[1]
  /\ ts_task_box = TaskItems[2]
  /\ combo_enabled = on_method_changed(MethodItems[2])
  /\ log_box = << >>
  /\ modal = None
  /\ worker = None
  /\ threads = [k \in Kinds |-> Free]
  /\ eventQueue = << >>
  /\ nifti_file = [d \in MoreOutputDirs |-> "absent"]
  /\ aborted = FALSE
  /\ series_ids = << >>
  /\ best_series = 0

\* SegmentationUI.select_output, with more than one folder to pick
select_output_again ==
  /\ ~aborted
  /\ \E path \in MoreOutputDirs \cup {Cancelled} :
       IF Truthy(path)
       THEN /\ output_dir' = path
            /\ appends(<< <<"Output: ", path>> >>)
       ELSE /\ UNCHANGED output_dir
            /\ Quiet
  /\ UNCHANGED <<dicom_dir, nifti_path, btn_convert, run_btn,
                 method_box, model_box, device_box, ts_task_box, combo_enabled,
                 worker, threads, eventQueue, nifti_file, aborted>>
  /\ UNCHANGED scan_vars

NextDirs ==
  \/ select_dicom
  \/ select_output_again
  \/ convert_dicom
  \/ run_segmentation
  \/ deliver
  \/ \E w \in DOMAIN threads : conv_begin(w)
  \/ \E w \in DOMAIN threads : conv_convert(w)
  \/ \E w \in DOMAIN threads : conv_emit_finished(w)
  \/ \E w \in DOMAIN threads : conv_emit_none(w)
  \/ \E w \in DOMAIN threads : seg_begin(w)
  \/ \E w \in DOMAIN threads : seg_readline(w)
  \/ \E w \in DOMAIN threads : seg_wait(w)
  \/ \E w \in DOMAIN threads : seg_except(w)
  \/ \E w \in DOMAIN threads : seg_except_emit(w)

SpecDirs == InitDirs /\ [][NextDirs]_vars

(* ---------------------------- every selection ------------------------- *)

\* the tasks tried with every method, model and device: a CT task, an MR
\* task and a licensed one
CommandTasks == {TaskItems[2], TaskItems[27], TaskItems[36]}

\* the window right after run_segmentation (lines 314-328) has started a
\* worker for some selection, with a volume converted into some folder
InitCommand ==
  \E method \in {MethodItems[i] : i \in DOMAIN MethodItems},
     model \in {ModelItems[i] : i \in DOMAIN ModelItems},
     device \in {DeviceItems[i] : i \in DOMAIN DeviceItems},
     task \in CommandTasks,
     converted \in MoreOutputDirs,
     output \in MoreOutputDirs :
    /\ dicom_dir \in DicomDirs
    /\ output_dir = output
    /\ nifti_path = PathJoin(converted, <<"ct.nii.gz">>)
    /\ btn_convert = TRUE
    /\ run_btn = FALSE
    /\ method_box = method
    /\ model_box = model
    /\ device_box = device
    /\ ts_task_box = task
    /\ combo_enabled = on_method_changed(method)
    /\ log_box = (IF EndsWith(task, <<"_", "m", "r">>)
                  THEN << <<"WARNING: MR task selected. Ensure MR input.\n">> >>
                  ELSE << >>)
                 \o << <<"Starting segmentation...\n">> >>
    /\ modal = None
    /\ worker = "segment"
    /\ threads = [k \in Kinds |->
         IF k = "segment"
         THEN SegmentationWorker(nifti_path, output, method, model, device, task)
         ELSE Free]
    /\ eventQueue = << >>
    /\ nifti_file = [d \in MoreOutputDirs |->
         IF d = converted THEN "valid" ELSE "absent"]
    /\ aborted = FALSE
    /\ series_ids = << >>
    /\ best_series = 0

\* the run of the worker and the handling of its emissions
NextCommand ==
  \/ deliver
  \/ \E w \in DOMAIN threads : seg_begin(w)
  \/ \E w \in DOMAIN threads : seg_readline(w)
  \/ \E w \in DOMAIN threads : seg_wait(w)
  \/ \E w \in DOMAIN threads : seg_except(w)
  \/ \E w \in DOMAIN threads : seg_except_emit(w)

SpecCommand == InitCommand /\ [][NextCommand]_vars

(* ---------------------------- properties ------------------------------ *)

\* a worker of class k has been started and its completion is not yet handled
InFlight(k) == threads[k].kind # "free"

\* the emissions of class k still queued, oldest first
RECURSIVE QueuedFrom(_, _)
QueuedFrom(queue, k) ==
  IF queue = << >> THEN << >>
  ELSE (IF Head(queue).src = k
        THEN << <<Head(queue).sig, Head(queue).arg>> >>
        ELSE << >>) \o QueuedFrom(Tail(queue), k)

\* the text is a group header of the task selector
IsHeader(text) == StartsWith(text, <<"-", "-", "-">>)

\* a directory attribute is unset
DirUnset == dicom_dir = None \/ output_dir = None

\* an emission is the error line of an except clause
IsErrorLine(e) == e[1] = "log" /\ StartsWith(e[2], <<"ERROR: ">>)

\* the running worker of class k has reported an error
Failed(k) == \E i \in DOMAIN threads[k].sent : IsErrorLine(threads[k].sent[i])

\* the latest step was an accepted start of a segmentation
StartedSegmentation ==
  \E i \in DOMAIN log_box : log_box[i] = <<"Starting segmentation...\n">>

\* this step is the UI thread handling the completion of the worker of class k
HandlesFinished(k) ==
  /\ eventQueue # << >>
  /\ Head(eventQueue).src = k
  /\ Head(eventQueue).sig = "finished"
  /\ eventQueue' = Tail(eventQueue)

\* C1: while nifti_path is unset no SegmentationWorker exists, no command has
\* been built and no start has been logged; the "Missing NIfTI" warning is
\* shown only in such a state and the request that shows it changes nothing
C1_RejectedWithoutVolume ==
  /\ nifti_path = NonePath =>
       /\ threads["segment"] = Free
       /\ QueuedFrom(eventQueue, "segment") = << >>
       /\ ~StartedSegmentation
  /\ InFlight("segment") => threads["segment"].nifti_path # NonePath
  /\ modal = "Missing NIfTI" =>
       nifti_path = NonePath /\ log_box = << >> /\ run_btn

\* a request with an output directory, TotalSegmentator and a real task was
\* refused for the missing volume alone
C1_Witness ==
  /\ modal = "Missing NIfTI"
  /\ Truthy(output_dir)
  /\ method_box = "TotalSegmentator"
  /\ ~IsHeader(ts_task_box)
  /\ threads["segment"] = Free

\* C2: a conversion worker and a segmentation worker are never in flight at
\* the same time
C2_OneWorkerInFlight == ~(InFlight("convert") /\ InFlight("segment"))

\* C3: when the completion of a failed conversion run is handled, nifti_path
\* is unset afterwards and the convert button is enabled again
C3_FailureUnsetsVolume ==
  [][HandlesFinished("convert") /\ Failed("convert")
       => nifti_path' = NonePath /\ btn_convert']_vars

\* C4: with Skellytour selected a start request is never refused for the
\* value of the task field
C4_TaskIgnoredForSkellytour ==
  modal = "Invalid Task" => method_box # "Skellytour"

\* C5: when the completion of a failed segmentation run is handled, the
\* pipeline does not report Done
C5_FailureIsNotDone ==
  [][HandlesFinished("segment") /\ Failed("segment")
       => log_box' # << <<"\nDone.\n">> >>]_vars

\* C6: a SegmentationWorker for TotalSegmentator never carries a group header
\* as its task, a start is never logged with a header selected, and the
\* "Invalid Task" warning is shown with a volume set, a header selected, no
\* worker created and nothing logged
C6_HeaderTaskRejected ==
  /\ (InFlight("segment") /\ threads["segment"].method = "TotalSegmentator")
       => ~IsHeader(threads["segment"].ts_task)
  /\ (StartedSegmentation /\ method_box = "TotalSegmentator")
       => ~IsHeader(ts_task_box)
  /\ modal = "Invalid Task" =>
       /\ nifti_path # NonePath
       /\ IsHeader(ts_task_box)
       /\ threads["segment"] = Free
       /\ log_box = << >>
       /\ run_btn

\* TotalSegmentator with the first group header selected was refused
C6_Witness ==
  /\ modal = "Invalid Task"
  /\ method_box = "TotalSegmentator"
  /\ ts_task_box = GroupHeader(TOTAL_SEGMENTATOR_TASKS[1].group)
  /\ nifti_path # NonePath

\* C7: a DicomToNiftiWorker exists only with both directories set, and the
\* "Missing Input" warning is shown with a directory unset, no conversion
\* worker created, nothing logged and the button still enabled
C7_ConversionNeedsBothDirs ==
  /\ DirUnset =>
       /\ threads["convert"] = Free
       /\ QueuedFrom(eventQueue, "convert") = << >>
  /\ InFlight("convert") =>
       Truthy(threads["convert"].dicom_dir) /\ Truthy(threads["convert"].output_dir)
  /\ modal = "Missing Input" =>
       DirUnset /\ log_box = << >> /\ btn_convert

\* a request with the source directory set and the output directory unset
\* was refused
C7_Witness ==
  /\ modal = "Missing Input"
  /\ Truthy(dicom_dir)
  /\ ~Truthy(output_dir)
  /\ threads["convert"] = Free

\* C8: for every run, what the UI thread has handled followed by what is
\* still queued is what the worker emitted, in that order; finished is the
\* last emission of a run; a segmentation run's log lines after the first
\* are the process's lines in the order it wrote them; and once a run's
\* completion is handled none of its emissions is queued
C8_LogOrderThenCompletion ==
  \A k \in Kinds :
    LET t == threads[k]
    IN  /\ t.sent = t.seen \o QueuedFrom(eventQueue, k)
        /\ \A i \in DOMAIN t.sent :
             t.sent[i][1] = "finished" => i = Len(t.sent)
        /\ \A i \in DOMAIN t.seen : t.seen[i][1] = "log"
        /\ \A i \in DOMAIN t.stdout :
             /\ Len(t.sent) > i
             /\ t.sent[i + 1] = <<"log", rstrip(t.stdout[i])>>
        /\ ~InFlight(k) => QueuedFrom(eventQueue, k) = << >>

\* a failed segmentation run has emitted its completion after process
\* lines and the error line, and the UI thread has handled two of its lines
\* while a conversion is in flight too
C8_Witness ==
  /\ threads["segment"].pc = "returned"
  /\ Failed("segment")
  /\ Len(threads["segment"].stdout) = MaxLines
  /\ Len(threads["segment"].seen) >= 2
  /\ QueuedFrom(eventQueue, "convert") # << >>

\* C9: no exception leaves a worker's run(): the process is never aborted
\* by an unhandled exception
C9_NoUncaughtFault ==
  /\ ~aborted
  /\ \A k \in Kinds : threads[k].pc # "uncaught"

\* the conversion run in flight found no series
ZeroSeries ==
  \E i \in DOMAIN threads["convert"].sent :
    threads["convert"].sent[i] = <<"log", <<"ERROR: ", "No DICOM series found">> >>

\* C10: from the scan that finds no series to the handling of the run's
\* completion, no step writes a volume file or sets nifti_path, the run
\* emits no "NIfTI created" line, and any completion it emits carries no path
C10_ZeroSeriesFails ==
  [][(ZeroSeries \/ ZeroSeries')
       => /\ nifti_file' = nifti_file
          /\ nifti_path' = nifti_path
          /\ ZeroSeries' =>
               \A i \in DOMAIN threads'["convert"].sent :
                 LET e == threads'["convert"].sent[i]
                 IN  /\ e[1] = "finished" => e[2] = NonePath
                     /\ ~StartsWith(e[2], <<"NIfTI created: ">>)]_vars

\* the completion of a zero-series first run has been emitted: no file
\* exists and nifti_path is unset
C10_Witness ==
  /\ ZeroSeries
  /\ threads["convert"].pc = "returned"
  /\ nifti_file[threads["convert"].output_dir] = "absent"
  /\ nifti_path = NonePath

\* C11: the series selected is one of those enumerated, none has more files
\* than it, and every series enumerated before it has strictly fewer
C11_LargestSeriesFirstOnTie ==
  best_series # 0 =>
    /\ best_series \in DOMAIN series_ids
    /\ \A i \in DOMAIN series_ids : series_ids[i] <= series_ids[best_series]
    /\ \A i \in 1 .. best_series - 1 : series_ids[i] < series_ids[best_series]

\* of four series, the second and the fourth are the largest and the second
\* has been selected
C11_Witness ==
  /\ series_ids = <<2, 3, 1, 3>>
  /\ best_series = 2

\* this step starts the segmentation worker, is a step of its run(), or is
\* the UI thread handling one of its emissions
SegmentationStep == threads'["segment"] # threads["segment"]

\* C12: no step of a segmentation run, from its start to the handling of its
\* completion, changes nifti_path or the volume file; when the completion of
\* a failed run is handled nifti_path is still set and the run button is
\* enabled again
C12_SegmentationKeepsVolume ==
  [][/\ SegmentationStep =>
          nifti_path' = nifti_path /\ nifti_file' = nifti_file
     /\ (HandlesFinished("segment") /\ Failed("segment")) =>
          nifti_path' # NonePath /\ run_btn']_vars

\* a segmentation run has failed and emitted its completion; the volume
\* written by the conversion is in place
C12_Witness ==
  /\ threads["segment"].pc = "returned"
  /\ Failed("segment")
  /\ nifti_path = threads["segment"].nifti_path
  /\ nifti_file[threads["segment"].output_dir] = "valid"

\* a conversion has succeeded and no conversion is in flight
Converted == nifti_path # NonePath /\ ~InFlight("convert")

\* this step is the conversion worker writing the volume (line 104)
WritesVolume ==
  /\ threads["convert"].pc = "convert"
  /\ threads'["convert"].pc = "emit_finished"

\* C13: once a conversion has succeeded and none is in flight, the convert
\* button is enabled and both directories are set, and no start is refused
\* for a missing input; the write of a run leaves one ct.nii.gz in its
\* output directory and touches no other; and when the completion of a
\* successful run is handled, nifti_path becomes the path that run produced
C13_ReconversionOverwrites ==
  [][/\ Converted' => btn_convert' /\ ~DirUnset'
     /\ (modal' = "Missing Input") => nifti_path' = NonePath
     /\ WritesVolume =>
          nifti_file' = [nifti_file EXCEPT ![threads["convert"].output_dir] = "valid"]
     /\ (HandlesFinished("convert") /\ ~Failed("convert")) =>
          /\ nifti_path' = PathJoin(threads["convert"].output_dir, <<"ct.nii.gz">>)
          /\ btn_convert']_vars

\* a later conversion into the directory of the stored path has written its
\* volume over the existing one and emitted its completion; the other
\* directory holds no volume
C13_Witness ==
  /\ threads["convert"].pc = "returned"
  /\ ~Failed("convert")
  /\ nifti_path = threads["convert"].nifti_path
  /\ nifti_file[threads["convert"].output_dir] = "valid"
  /\ \E d \in DOMAIN nifti_file : nifti_file[d] = "absent"

\* C14: the command a segmentation worker has built is, for Skellytour,
\* skellytour -i <volume> -o <output> -m <model> -d <device> --overwrite and
\* no directory is created; otherwise it is TotalSegmentator -i <volume>
\* -o <output>/segmentations_<task> -ta <task>, and that directory has been
\* created before the process is launched
C14_CommandFixedByMethod ==
  LET t == threads["segment"]
  IN  /\ t.cmd # << >> =>
           IF t.method = "Skellytour"
           THEN /\ t.cmd = << <<"skellytour">>,
                              <<"-i">>, t.nifti_path,
                              <<"-o">>, <<t.output_dir>>,
                              <<"-m">>, <<t.model>>,
                              <<"-d">>, <<t.device>>,
                              <<"--overwrite">> >>
                /\ t.made_dir = << >>
           ELSE /\ t.cmd = << <<"TotalSegmentator">>,
                              <<"-i">>, t.nifti_path,
                              <<"-o">>, <<t.output_dir, "/", "segmentations_">> \o t.ts_task,
                              <<"-ta">>, t.ts_task >>
                /\ t.made_dir = <<t.output_dir, "/", "segmentations_">> \o t.ts_task
      /\ (InFlight("segment") /\ t.pc # "begin") =>
           (t.cmd # << >> \/ t.err = <<"Popen failed">>)

\* Skellytour with model medium and device cpu has been launched
C14_Witness ==
  /\ threads["segment"].method = "Skellytour"
  /\ threads["segment"].model = "medium"
  /\ threads["segment"].device = "cpu"
  /\ threads["segment"].pc = "readline"
  /\ threads["segment"].cmd # << >>

\* the text ends with the MR suffix
IsMR(text) ==
  Len(text) >= 3 /\ SubSeq(text, Len(text) - 2, Len(text)) = <<"_", "m", "r">>

\* C15: an accepted start logs the MR advisory, once and before the
\* "Starting" line, exactly when the selected task ends with _mr, and with
\* or without it the worker created carries the stored path and the
\* selection and is about to run
C15_AdvisoryNeverBlocks ==
  StartedSegmentation =>
    /\ log_box =
         (IF IsMR(ts_task_box)
          THEN << <<"WARNING: MR task selected. Ensure MR input.\n">> >>
          ELSE << >>) \o << <<"Starting segmentation...\n">> >>
    /\ threads["segment"].kind = "segment"
    /\ threads["segment"].pc = "begin"
    /\ threads["segment"].nifti_path = nifti_path
    /\ threads["segment"].method = method_box
    /\ threads["segment"].ts_task = ts_task_box
    /\ worker = "segment"
    /\ ~run_btn

\* a start with total_mr selected has logged the advisory and started the
\* TotalSegmentator worker
C15_Witness ==
  /\ StartedSegmentation
  /\ ts_task_box = TaskItems[27]
  /\ method_box = "TotalSegmentator"
  /\ Len(log_box) = 2
  /\ threads["segment"].pc = "begin"

\* C16: the error line of a run whose process was launched and failed names
\* the command that was run
C16_FailureNamesCommand ==
  LET t == threads["segment"]
  IN  \A i \in DOMAIN t.sent :
        (IsErrorLine(t.sent[i]) /\ t.cmd # << >>) =>
          \E j \in DOMAIN t.sent[i][2] : <<t.sent[i][2][j]>> = t.cmd[1]

\* this step is a step of the run() of the worker of class k
WorkerStep(k) ==
  /\ InFlight(k)
  /\ threads'[k].kind # "free"
  /\ \/ threads'[k].sent # threads[k].sent
     \/ threads'[k].pc # threads[k].pc

\* C17: no step of a worker's run() changes the directories, nifti_path or
\* the enablement of a button, and nifti_path changes only in the step that
\* handles the completion signal of a conversion
C17_StateOwnedByUI ==
  [][/\ (\E k \in Kinds : WorkerStep(k)) =>
          UNCHANGED <<dicom_dir, output_dir, nifti_path, btn_convert, run_btn>>
     /\ nifti_path' # nifti_path => HandlesFinished("convert")]_vars

\* a conversion worker has written its volume and emitted nothing but log
\* lines: the window still has no volume path
C17_Witness ==
  /\ threads["convert"].pc = "emit_finished"
  /\ nifti_file[threads["convert"].output_dir] = "valid"
  /\ nifti_path = NonePath
  /\ ~btn_convert

\* the run() of the worker of class k has been left, by return or by an
\* exception
RunOver(k) == threads[k].pc \in {"returned", "uncaught"}

\* each button is disabled exactly while a run of its class is in flight
ButtonsFollowRuns ==
  /\ btn_convert <=> ~InFlight("convert")
  /\ run_btn <=> ~InFlight("segment")

\* C18: each button is disabled exactly while a run of its class is in
\* flight, and a run that is over has its completion queued, so that
\* handling it re-enables the button
C18_ButtonsFollowRuns ==
  /\ ButtonsFollowRuns
  /\ \A k \in Kinds :
       RunOver(k) => QueuedFrom(eventQueue, k) # << >>

\* this step creates and starts the worker of class k
Starts(k) == ~InFlight(k) /\ threads'[k].kind # "free"

\* C19: a conversion worker keeps the output directory that was selected
\* when it was started; nifti_path changes only when the completion of a
\* successful conversion is handled, and handling one sets it to
\* ct.nii.gz in that run's directory; a segmentation worker is given the
\* value stored when it is started and keeps it to the end of its run
C19_StoredPathIsLastSuccess ==
  [][/\ Starts("convert") => threads'["convert"].output_dir = output_dir
     /\ (InFlight("convert") /\ threads'["convert"].kind # "free") =>
          threads'["convert"].output_dir = threads["convert"].output_dir
     /\ nifti_path' # nifti_path =>
          HandlesFinished("convert") /\ ~Failed("convert")
     /\ (HandlesFinished("convert") /\ ~Failed("convert")) =>
          nifti_path' = <<threads["convert"].output_dir, "/", "ct.nii.gz">>
     /\ Starts("segment") => threads'["segment"].nifti_path = nifti_path
     /\ (InFlight("segment") /\ threads'["segment"].kind # "free") =>
          threads'["segment"].nifti_path = threads["segment"].nifti_path]_vars

\* a segmentation reads the volume converted into one folder and writes to
\* the other, selected since, while a conversion into that other folder has
\* failed and the stored path is still the first
C19_Witness ==
  /\ InFlight("segment")
  /\ threads["segment"].nifti_path = nifti_path
  /\ threads["segment"].output_dir # nifti_path[1]
  /\ output_dir = threads["segment"].output_dir
  /\ threads["convert"].output_dir = output_dir
  /\ Failed("convert")

\* C20: a step that shows one of the three warnings changes neither the
\* directories, nifti_path, the buttons, the workers, their queued
\* emissions nor the volume files, and appends nothing to the log
C20_RejectionChangesNothing ==
  [][modal' \in {"Missing Input", "Missing NIfTI", "Invalid Task"} =>
       /\ UNCHANGED <<dicom_dir, output_dir, nifti_path, btn_convert, run_btn,
                      threads, worker, eventQueue, nifti_file>>
       /\ log_box' = << >>]_vars

\* a start of a segmentation has been refused for its task while a
\* conversion is in flight with emissions queued
C20_Witness ==
  /\ modal = "Invalid Task"
  /\ InFlight("convert")
  /\ eventQueue # << >>
  /\ nifti_path # NonePath

====
